---- MODULE Spec2Model ----
(***************************************************************************)
(* The three-stage pipeline of the devplan backend: the mood analysis      *)
(* stage (SpeechToTextMoodAnalysisService.analyzeAudio), the template      *)
(* selector (TemplateSelectorService), the video generation stage          *)
(* (generateAvatarVideo) and the pipeline controller (routes/dialogues).   *)
(*                                                                         *)
(* Scores that the source keeps as floats in [0,1] or [-1,1] are kept as   *)
(* integers in hundredths (0.6 is 60).  Strings that the source never      *)
(* inspects (URLs, error messages, transcripts) are tokens; a transcript   *)
(* is the record of what the source's regular expressions and vocabulary   *)
(* matches can see of it.                                                  *)
(***************************************************************************)
EXTENDS Integers, Sequences, FiniteSets, TLC

VARIABLES
    an,         \* one analyzeAudio call: position, locals, call history
    gen,        \* one generateAvatarVideo call: position, locals, call history
    dialogue,   \* record store: the row of the dialogue under study, or NoRow
    videos,     \* record store, table videos: the row each request inserted
    upl,        \* the POST /upload or POST /record request of the dialogue
    task,       \* triggerAnalysis of the dialogue
    req,        \* the POST /:id/generate requests
    job,        \* the detached generation job of each request
    sel         \* one call on the template selector: its arguments and what it returned

vars == <<an, gen, dialogue, videos, upl, task, req, job, sel>>

Null == "null"          \* JavaScript null / undefined

(***************************************************************************)
(* Mood analysis stage                                                     *)
(***************************************************************************)

maxRetries == 2
retryDelayMs == 1000
ConfidenceGate == 60

\* What detectLanguage, extractKeyThemes and detectRiskIndicators can see of
\* a transcript: whether it holds a Hebrew-block character, whether it holds
\* a Latin letter, and which vocabulary words occur in it (lower-cased).
Texts ==
    { [id |-> "t_en",     heb |-> FALSE, lat |-> TRUE,  words |-> {}],
      [id |-> "t_he",     heb |-> TRUE,  lat |-> FALSE, words |-> {}],
      [id |-> "t_mixed",  heb |-> TRUE,  lat |-> TRUE,  words |-> {"family"}],
      [id |-> "t_digits", heb |-> FALSE, lat |-> FALSE, words |-> {}],
      [id |-> "t_risk",   heb |-> FALSE, lat |-> TRUE,  words |-> {"hopeless", "work"}] }

NoText == [id |-> "", heb |-> FALSE, lat |-> FALSE, words |-> {}]

Hints == {Null, "unknown", "english", "hebrew", "unsupported"}

detectLanguage_LatinFirst(text) ==
    IF text.lat THEN "english"
    ELSE IF text.heb THEN "hebrew"
    ELSE "unknown"
detectLanguage(text) ==
    IF text.heb THEN "hebrew"
    ELSE IF text.lat THEN "english"
    ELSE "unknown"

mapSentimentToScore(sentiment) ==
    CASE sentiment = "positive" -> 80
      [] sentiment = "negative" -> -80
      [] sentiment = "neutral" -> 0
      [] OTHER -> 0

mapGoogleSentimentToMood(score) ==
    IF score > 10 THEN "positive"
    ELSE IF score < -10 THEN "negative"
    ELSE "neutral"

Abs(x) == IF x < 0 THEN -x ELSE x

mapGoogleSentimentToEmotions(score) ==
    IF score > 30 THEN << [name |-> "joy", intensity |-> score, confidence |-> 80] >>
    ELSE IF score < -30
         THEN << [name |-> "sadness", intensity |-> Abs(score), confidence |-> 80] >>
         ELSE << [name |-> "neutral", intensity |-> 50, confidence |-> 60] >>

commonThemes ==
    << "work", "family", "health", "stress", "happiness", "anxiety", "success", "failure" >>

riskKeywords == << "suicide", "harm", "danger", "hopeless", "worthless" >>

RECURSIVE FilterSeq(_, _)
FilterSeq(s, keep) ==
    IF s = << >> THEN << >>
    ELSE IF Head(s) \in keep THEN << Head(s) >> \o FilterSeq(Tail(s), keep)
         ELSE FilterSeq(Tail(s), keep)

Take(s, n) == IF Len(s) <= n THEN s ELSE SubSeq(s, 1, n)

extractKeyThemes(text) == Take(FilterSeq(commonThemes, text.words), 3)

detectRiskIndicators(text) == FilterSeq(riskKeywords, text.words)

generateRecommendations(mood) ==
    CASE mood = "positive" -> << "continue_positive", "share_positive" >>
      [] mood = "negative" -> << "see_professional", "self_care" >>
      [] mood = "neutral" -> << "explore_joy", "set_goals" >>
      [] OTHER -> << >>

applyNeutralFallback_Identity(m) == m
applyNeutralFallback_ClearRisk(m) ==
    [m EXCEPT !.overall_mood = "neutral",
              !.confidence_score = 50,
              !.emotions = << [name |-> "neutral", intensity |-> 50, confidence |-> 50] >>,
              !.sentiment_score = 0,
              !.key_themes = << >>,
              !.risk_indicators = << >>,
              !.recommendations = << "rerecord_clearer", "speak_slowly" >>]
applyNeutralFallback(m) ==
    [m EXCEPT !.overall_mood = "neutral",
              !.confidence_score = 50,
              !.emotions = << [name |-> "neutral", intensity |-> 50, confidence |-> 50] >>,
              !.sentiment_score = 0,
              !.recommendations = << "rerecord_clearer", "speak_slowly" >>]

createNeutralMoodAnalysis_Positive ==
    [overall_mood |-> "positive", confidence_score |-> 0,
     emotions |-> << [name |-> "neutral", intensity |-> 50, confidence |-> 0] >>,
     sentiment_score |-> 0, key_themes |-> << >>, risk_indicators |-> << >>,
     recommendations |-> << "unable_to_analyze" >>]
createNeutralMoodAnalysis ==
    [overall_mood |-> "neutral",
     confidence_score |-> 0,
     emotions |-> << [name |-> "neutral", intensity |-> 50, confidence |-> 0] >>,
     sentiment_score |-> 0,
     key_themes |-> << >>,
     risk_indicators |-> << >>,
     recommendations |-> << "unable_to_analyze" >>]

\* Optional values: None is JavaScript's null / undefined.
None == << >>
Some(x) == << x >>

\* ---- provider responses ------------------------------------------------
\* callElevenLabsTranscription: fetch rejects, a non-OK status, a body with
\* no text, or a body with text and confidence.
ElSttOutcomes ==
    { [kind |-> "reject", text |-> NoText, conf |-> 0],
      [kind |-> "http",   text |-> NoText, conf |-> 0],
      [kind |-> "notext", text |-> NoText, conf |-> 90] }
    \cup { [kind |-> "ok", text |-> t, conf |-> c] : t \in Texts, c \in {50, 60, 90} }

NoEmotions == << >>

\* callElevenLabsSentiment: as above; a body may lack the emotions array, or
\* carry an empty one.
ElSentOutcomes ==
    { [kind |-> "reject",     sentiment |-> "neutral", confidence |-> 0, emotions |-> NoEmotions],
      [kind |-> "http",       sentiment |-> "neutral", confidence |-> 0, emotions |-> NoEmotions],
      [kind |-> "noemotions", sentiment |-> "neutral", confidence |-> 70, emotions |-> NoEmotions],
      [kind |-> "ok", sentiment |-> "positive", confidence |-> 90,
          emotions |-> << [name |-> "joy", intensity |-> 80] >>],
      [kind |-> "ok", sentiment |-> "negative", confidence |-> 80,
          emotions |-> << [name |-> "sadness", intensity |-> 70], [name |-> "anxiety", intensity |-> 60] >>],
      [kind |-> "ok", sentiment |-> "neutral", confidence |-> 70, emotions |-> NoEmotions] }

\* callGoogleAITranscription: fetch rejects, a non-OK status, a body without
\* results, results whose first alternative is missing, or a transcript;
\* conf 0 stands for a missing or zero confidence field.
GSttOutcomes ==
    { [kind |-> "reject",    text |-> NoText, conf |-> 0],
      [kind |-> "http",      text |-> NoText, conf |-> 0],
      [kind |-> "noresults", text |-> NoText, conf |-> 0],
      [kind |-> "noalt",     text |-> NoText, conf |-> 0] }
    \cup { [kind |-> "ok", text |-> t, conf |-> c] : t \in Texts, c \in {0, 50, 90} }

\* callGoogleAISentiment: as above; a body may lack documentSentiment.
GSentOutcomes ==
    { [kind |-> "reject", score |-> 0],
      [kind |-> "http",   score |-> 0],
      [kind |-> "nodoc",  score |-> 0] }
    \cup { [kind |-> "ok", score |-> s] : s \in {-80, -20, 0, 50} }

\* ---- one analyzeAudio call ----------------------------------------------
NoResult ==
    [transcript |-> NoText, language |-> "none", moodAnalysis |-> createNeutralMoodAnalysis,
     confidence |-> 0, apiUsed |-> "none",
     metadata |-> [retryCount |-> 0, fallbackUsed |-> FALSE,
                   neutralFallbackApplied |-> FALSE, languageOverride |-> FALSE]]

NoHist ==
    [elStt |-> 0, elSent |-> 0, elFail |-> 0, gStt |-> 0, gSent |-> 0, gFail |-> 0,
     delays |-> << >>, mood |-> None]

AInit(hint, elKey, gKey) ==
    [pc |-> "entry", hint |-> hint, elKey |-> elKey, gKey |-> gKey, attempt |-> 0,
     text |-> NoText, tconf |-> 0, fallbackUsed |-> FALSE, result |-> NoResult,
     hist |-> NoHist]

\* The catch block of analyzeAudio: the neutral fallback result.
AnalyzeCatch_Rethrow(a) == [a EXCEPT !.pc = "threw"]
AnalyzeCatch_LocalFlags(a) ==
    [a EXCEPT !.pc = "returned",
              !.result = [transcript |-> NoText, language |-> "unknown",
                          moodAnalysis |-> createNeutralMoodAnalysis,
                          confidence |-> 0, apiUsed |-> "fallback",
                          metadata |-> [retryCount |-> 0, fallbackUsed |-> a.fallbackUsed,
                                        neutralFallbackApplied |-> FALSE,
                                        languageOverride |-> FALSE]]]
AnalyzeCatch(a) ==
    [a EXCEPT !.pc = "returned",
              !.result = [transcript |-> NoText, language |-> "unknown",
                          moodAnalysis |-> createNeutralMoodAnalysis,
                          confidence |-> 0, apiUsed |-> "fallback",
                          metadata |-> [retryCount |-> 0, fallbackUsed |-> TRUE,
                                        neutralFallbackApplied |-> TRUE,
                                        languageOverride |-> FALSE]]]

\* analyzeAudio after a provider returned a result: language, override,
\* confidence gate, and the returned record.
AnalyzeReturn(a, transcript, mood, confidence) ==
    LET detectedLanguage == detectLanguage(transcript)
        languageOverride == a.hint # Null /\ a.hint # "unknown" /\ detectedLanguage # a.hint
        gated == confidence < ConfidenceGate
    IN [a EXCEPT !.pc = "returned", !.hist.mood = Some(mood),
                 !.result = [transcript |-> transcript, language |-> detectedLanguage,
                             moodAnalysis |-> IF gated THEN applyNeutralFallback(mood) ELSE mood,
                             confidence |-> confidence,
                             apiUsed |-> IF a.fallbackUsed THEN "google" ELSE "elevenlabs",
                             metadata |-> [retryCount |-> 0, fallbackUsed |-> a.fallbackUsed,
                                           neutralFallbackApplied |-> gated,
                                           languageOverride |-> languageOverride]]]

\* tryGoogleAIAnalysis up to its first await, or its early return of null,
\* on which analyzeAudio throws 'All API providers failed' into its catch.
EnterGoogle(a) ==
    LET b == [a EXCEPT !.fallbackUsed = TRUE, !.attempt = 0]
    IN IF ~a.gKey THEN AnalyzeCatch(b) ELSE [b EXCEPT !.pc = "g_stt"]

EnterElevenLabs_IgnoreKey(a) == [a EXCEPT !.pc = "el_stt", !.attempt = 0]
\* tryElevenLabsAnalysis up to its first await, or its early return of null.
EnterElevenLabs(a) ==
    IF ~a.elKey THEN EnterGoogle(a) ELSE [a EXCEPT !.pc = "el_stt", !.attempt = 0]

ElAttemptFailed_NoRetry(a) == EnterGoogle([a EXCEPT !.hist.elFail = @ + 1])
\* The catch block inside the retry loop of tryElevenLabsAnalysis.
ElAttemptFailed(a) ==
    LET b == [a EXCEPT !.hist.elFail = @ + 1]
    IN IF a.attempt < maxRetries
       THEN [b EXCEPT !.pc = "el_delay"]
       ELSE EnterGoogle(b)

\* The catch block inside the retry loop of tryGoogleAIAnalysis.
GAttemptFailed(a) ==
    LET b == [a EXCEPT !.hist.gFail = @ + 1]
    IN IF a.attempt < maxRetries
       THEN [b EXCEPT !.pc = "g_delay"]
       ELSE AnalyzeCatch(b)

Pow2(n) == IF n = 0 THEN 1 ELSE IF n = 1 THEN 2 ELSE 4

AfterElStt_SentimentAnyway(a, o) ==
    LET b == [a EXCEPT !.hist.elStt = @ + 1]
    IN IF o.kind \notin {"ok", "notext"}
       THEN ElAttemptFailed(b)
       ELSE [b EXCEPT !.pc = "el_sent", !.text = o.text, !.tconf = o.conf]
AfterElStt(a, o) ==
    LET b == [a EXCEPT !.hist.elStt = @ + 1]
    IN IF o.kind # "ok"
       THEN ElAttemptFailed(b)
       ELSE [b EXCEPT !.pc = "el_sent", !.text = o.text, !.tconf = o.conf]

ElEmotions(o) ==
    [i \in 1..Len(o.emotions) |->
        [name |-> o.emotions[i].name, intensity |-> o.emotions[i].intensity,
         confidence |-> o.confidence]]

AfterElSent(a, o) ==
    LET b == [a EXCEPT !.hist.elSent = @ + 1]
    IN IF o.kind # "ok"
       THEN ElAttemptFailed(b)
       ELSE AnalyzeReturn(b, a.text,
                [overall_mood |-> o.sentiment,
                 confidence_score |-> o.confidence,
                 emotions |-> ElEmotions(o),
                 sentiment_score |-> mapSentimentToScore(o.sentiment),
                 key_themes |-> extractKeyThemes(a.text),
                 risk_indicators |-> detectRiskIndicators(a.text),
                 recommendations |-> generateRecommendations(o.sentiment)],
                a.tconf)

AfterElDelay_Constant(a) ==
    [a EXCEPT !.pc = "el_stt", !.attempt = @ + 1,
              !.hist.delays = Append(@, retryDelayMs)]
AfterElDelay(a) ==
    [a EXCEPT !.pc = "el_stt", !.attempt = @ + 1,
              !.hist.delays = Append(@, retryDelayMs * Pow2(a.attempt))]

AfterGStt(a, o) ==
    LET b == [a EXCEPT !.hist.gStt = @ + 1]
    IN IF o.kind # "ok"
       THEN GAttemptFailed(b)
       ELSE [b EXCEPT !.pc = "g_sent", !.text = o.text,
                      !.tconf = IF o.conf = 0 THEN 50 ELSE o.conf]

AfterGSent(a, o) ==
    LET b == [a EXCEPT !.hist.gSent = @ + 1]
    IN IF o.kind # "ok"
       THEN GAttemptFailed(b)
       ELSE AnalyzeReturn(b, a.text,
                [overall_mood |-> mapGoogleSentimentToMood(o.score),
                 confidence_score |-> Abs(o.score),
                 emotions |-> mapGoogleSentimentToEmotions(o.score),
                 sentiment_score |-> o.score,
                 key_themes |-> extractKeyThemes(a.text),
                 risk_indicators |-> detectRiskIndicators(a.text),
                 recommendations |-> generateRecommendations(mapGoogleSentimentToMood(o.score))],
                a.tconf)

AfterGDelay(a) ==
    [a EXCEPT !.pc = "g_stt", !.attempt = @ + 1,
              !.hist.delays = Append(@, retryDelayMs * Pow2(a.attempt))]

\* Every state one step of the call can lead to from a.
ASucc(a) ==
    CASE a.pc = "entry"    -> { EnterElevenLabs(a) }
      [] a.pc = "el_stt"   -> { AfterElStt(a, o) : o \in ElSttOutcomes }
      [] a.pc = "el_sent"  -> { AfterElSent(a, o) : o \in ElSentOutcomes }
      [] a.pc = "el_delay" -> { AfterElDelay(a) }
      [] a.pc = "g_stt"    -> { AfterGStt(a, o) : o \in GSttOutcomes }
      [] a.pc = "g_sent"   -> { AfterGSent(a, o) : o \in GSentOutcomes }
      [] a.pc = "g_delay"  -> { AfterGDelay(a) }
      [] OTHER             -> {}

AEnded(a) == a.pc \in {"returned", "threw"}

\* ---- the call as a state machine over the variable an --------------------
AnalyzeInit == an \in { AInit(h, ek, gk) : h \in Hints, ek \in BOOLEAN, gk \in BOOLEAN }

AnalyzeFrame == UNCHANGED <<gen, dialogue, videos, upl, task, req, job, sel>>

analyzeAudio ==
    an.pc = "entry" /\ an' = EnterElevenLabs(an) /\ AnalyzeFrame
callElevenLabsTranscription ==
    an.pc = "el_stt" /\ (\E o \in ElSttOutcomes : an' = AfterElStt(an, o)) /\ AnalyzeFrame
callElevenLabsSentiment ==
    an.pc = "el_sent" /\ (\E o \in ElSentOutcomes : an' = AfterElSent(an, o)) /\ AnalyzeFrame
elevenLabsDelay ==
    an.pc = "el_delay" /\ an' = AfterElDelay(an) /\ AnalyzeFrame
callGoogleAITranscription ==
    an.pc = "g_stt" /\ (\E o \in GSttOutcomes : an' = AfterGStt(an, o)) /\ AnalyzeFrame
callGoogleAISentiment ==
    an.pc = "g_sent" /\ (\E o \in GSentOutcomes : an' = AfterGSent(an, o)) /\ AnalyzeFrame
googleDelay ==
    an.pc = "g_delay" /\ an' = AfterGDelay(an) /\ AnalyzeFrame

AnalyzeNext ==
    \/ analyzeAudio
    \/ callElevenLabsTranscription
    \/ callElevenLabsSentiment
    \/ elevenLabsDelay
    \/ callGoogleAITranscription
    \/ callGoogleAISentiment
    \/ googleDelay

(***************************************************************************)
(* Video generation stage                                                  *)
(***************************************************************************)

STORAGE_RETRY_LIMIT == 3
PROVIDER_RETRY_LIMIT == 2

Undefined == "undefined"
Falsy(s) == s \in {"", Undefined, Null}

DidUrl == "https://d-id/video.mp4"
JoggUrl == "https://jogg/video.mp4"
StorageUrl == "https://storage/videos/user/dialogue/avatar.mp4"
ProviderUrls == {DidUrl, JoggUrl}

BothFailedMessage == "Both video providers failed to generate video."
JoggNoUrlMessage == "JOGG API did not return a video URL"

\* callDIDApi: axios rejects (network, timeout, non-2xx), or resolves with a
\* body that has no video_url, or with one.
DidOutcomes ==
    { [kind |-> "reject", message |-> "timeout of 120000ms exceeded"],
      [kind |-> "nourl",  message |-> ""],
      [kind |-> "ok",     message |-> ""] }

\* callJOGGApi: the same; a rejection may carry an empty message.
JoggOutcomes ==
    { [kind |-> "reject", message |-> "Request failed with status code 500"],
      [kind |-> "reject", message |-> ""],
      [kind |-> "nourl",  message |-> ""],
      [kind |-> "ok",     message |-> ""] }

\* axios.get of the provider's URL, then storageService.uploadBuffer.
DownloadOutcomes ==
    { [kind |-> "reject", message |-> "download failed"], [kind |-> "ok", message |-> ""] }
UploadOutcomes ==
    { [kind |-> "reject", message |-> "upload failed"], [kind |-> "ok", message |-> ""] }

NoVideoResult ==
    [videoUrl |-> "", provider |-> "none", status |-> "none", errorMessage |-> Undefined,
     duration |-> Undefined, providerResponse |-> Undefined]

NoVideoHist ==
    [didCalls |-> 0, joggCalls |-> 0, downloads |-> 0, uploads |-> 0, fetched |-> {}]

\* generateAvatarVideo up to its first await: the locals as declared, and the
\* first D-ID call of the loop in flight.
VInit ==
    [pc |-> "did", attempt |-> 0, provider |-> "D-ID", providerResponse |-> Null,
     videoUrl |-> "", errorMessage |-> Undefined, status |-> "failed", retry |-> 0,
     result |-> NoVideoResult, hist |-> NoVideoHist]

BothFailed_WithResponse(g) ==
    [g EXCEPT !.pc = "returned",
              !.result = [NoVideoResult EXCEPT !.videoUrl = "", !.provider = g.provider,
                                               !.status = "failed",
                                               !.errorMessage = g.errorMessage,
                                               !.providerResponse = g.providerResponse]]
\* The return after the loop when no provider gave a URL.
BothFailed(g) ==
    LET msg == IF Falsy(g.errorMessage) THEN BothFailedMessage ELSE g.errorMessage
    IN [g EXCEPT !.pc = "returned", !.errorMessage = msg,
                 !.result = [NoVideoResult EXCEPT !.videoUrl = "", !.provider = g.provider,
                                                  !.status = "failed", !.errorMessage = msg]]

NextIteration_OneMore(g) ==
    IF g.attempt + 1 <= PROVIDER_RETRY_LIMIT
    THEN [g EXCEPT !.pc = "did", !.attempt = @ + 1]
    ELSE BothFailed(g)
\* The end of one iteration of the provider loop in which both calls failed.
NextIteration(g) ==
    IF g.attempt + 1 < PROVIDER_RETRY_LIMIT
    THEN [g EXCEPT !.pc = "did", !.attempt = @ + 1]
    ELSE BothFailed(g)

\* The loop is left by break: the upload follows.
StartUpload(g) == [g EXCEPT !.pc = "download", !.retry = 0]

AfterDid_KeepProvider(g, o) ==
    LET h == [g EXCEPT !.hist.didCalls = @ + 1]
    IN CASE o.kind = "ok" ->
              StartUpload([h EXCEPT !.providerResponse = "did_data",
                                    !.videoUrl = DidUrl, !.status = "processing"])
         [] o.kind = "nourl" ->
              [h EXCEPT !.provider = "JOGG", !.providerResponse = "did_data_without_url",
                        !.videoUrl = "", !.pc = "jogg"]
         [] OTHER ->
              [h EXCEPT !.provider = "JOGG", !.pc = "jogg"]
AfterDid_AcceptEmptyUrl(g, o) ==
    LET h == [g EXCEPT !.hist.didCalls = @ + 1]
    IN CASE o.kind = "ok" ->
              StartUpload([h EXCEPT !.provider = "D-ID", !.providerResponse = "did_data",
                                    !.videoUrl = DidUrl, !.status = "processing"])
         [] o.kind = "nourl" ->
              StartUpload([h EXCEPT !.provider = "D-ID",
                                    !.providerResponse = "did_data_without_url",
                                    !.videoUrl = "", !.status = "processing"])
         [] OTHER ->
              [h EXCEPT !.provider = "JOGG", !.pc = "jogg"]
AfterDid(g, o) ==
    LET h == [g EXCEPT !.hist.didCalls = @ + 1]
    IN CASE o.kind = "ok" ->
              StartUpload([h EXCEPT !.provider = "D-ID", !.providerResponse = "did_data",
                                    !.videoUrl = DidUrl, !.status = "processing"])
         [] o.kind = "nourl" ->
              [h EXCEPT !.provider = "JOGG", !.providerResponse = "did_data_without_url",
                        !.videoUrl = "", !.pc = "jogg"]
         [] OTHER ->
              [h EXCEPT !.provider = "JOGG", !.pc = "jogg"]

AfterJogg(g, o) ==
    LET h == [g EXCEPT !.hist.joggCalls = @ + 1]
    IN CASE o.kind = "ok" ->
              StartUpload([h EXCEPT !.providerResponse = "jogg_data",
                                    !.videoUrl = JoggUrl, !.status = "processing"])
         [] o.kind = "nourl" ->
              NextIteration([h EXCEPT !.providerResponse = "jogg_data_without_url",
                                      !.videoUrl = "", !.errorMessage = JoggNoUrlMessage,
                                      !.status = "failed"])
         [] OTHER ->
              NextIteration([h EXCEPT !.errorMessage = o.message, !.status = "failed"])

\* The catch block around uploadVideoToStorage in generateAvatarVideo.
StorageFailed_Rethrow(g, message) == [g EXCEPT !.pc = "threw"]
StorageFailed(g, message) ==
    [g EXCEPT !.pc = "returned", !.errorMessage = message, !.status = "failed",
              !.result = [NoVideoResult EXCEPT !.videoUrl = "", !.provider = g.provider,
                                               !.status = "failed", !.errorMessage = message]]

UploadAttemptFailed_OtherUrl(g, message) ==
    IF g.retry < STORAGE_RETRY_LIMIT
    THEN [g EXCEPT !.pc = "download", !.retry = @ + 1,
                   !.videoUrl = IF @ = DidUrl THEN JoggUrl ELSE DidUrl]
    ELSE StorageFailed(g, message)
UploadAttemptFailed_OneMore(g, message) ==
    IF g.retry <= STORAGE_RETRY_LIMIT
    THEN [g EXCEPT !.pc = "download", !.retry = @ + 1]
    ELSE StorageFailed(g, message)
\* The catch block of uploadVideoToStorage: recurse, or rethrow.
UploadAttemptFailed(g, message) ==
    IF g.retry < STORAGE_RETRY_LIMIT
    THEN [g EXCEPT !.pc = "download", !.retry = @ + 1]
    ELSE StorageFailed(g, message)

\* The final return of generateAvatarVideo.
Completed_ProviderUrl(g, storageUrl) ==
    [g EXCEPT !.pc = "returned", !.status = "completed",
              !.result = [videoUrl |-> g.videoUrl, provider |-> g.provider,
                          status |-> "completed", errorMessage |-> g.errorMessage,
                          duration |-> Undefined, providerResponse |-> g.providerResponse]]
Completed(g, storageUrl) ==
    [g EXCEPT !.pc = "returned", !.status = "completed",
              !.result = [videoUrl |-> storageUrl, provider |-> g.provider,
                          status |-> "completed", errorMessage |-> g.errorMessage,
                          duration |-> Undefined, providerResponse |-> g.providerResponse]]

AfterDownload(g, o) ==
    LET h == [g EXCEPT !.hist.downloads = @ + 1, !.hist.fetched = @ \cup {g.videoUrl}]
    IN IF o.kind = "ok" THEN [h EXCEPT !.pc = "upload"]
       ELSE UploadAttemptFailed(h, o.message)

AfterUpload(g, o) ==
    LET h == [g EXCEPT !.hist.uploads = @ + 1]
    IN IF o.kind = "ok" THEN Completed(h, StorageUrl)
       ELSE UploadAttemptFailed(h, o.message)

VSucc(g) ==
    CASE g.pc = "did"      -> { AfterDid(g, o) : o \in DidOutcomes }
      [] g.pc = "jogg"     -> { AfterJogg(g, o) : o \in JoggOutcomes }
      [] g.pc = "download" -> { AfterDownload(g, o) : o \in DownloadOutcomes }
      [] g.pc = "upload"   -> { AfterUpload(g, o) : o \in UploadOutcomes }
      [] OTHER             -> {}

VEnded(g) == g.pc \in {"returned", "threw"}

\* ---- the call as a state machine over the variable gen -------------------
VideoInit == gen = VInit

VideoFrame == UNCHANGED <<an, dialogue, videos, upl, task, req, job, sel>>

callDIDApi ==
    gen.pc = "did" /\ (\E o \in DidOutcomes : gen' = AfterDid(gen, o)) /\ VideoFrame
callJOGGApi ==
    gen.pc = "jogg" /\ (\E o \in JoggOutcomes : gen' = AfterJogg(gen, o)) /\ VideoFrame
downloadVideo ==
    gen.pc = "download" /\ (\E o \in DownloadOutcomes : gen' = AfterDownload(gen, o)) /\ VideoFrame
uploadBuffer ==
    gen.pc = "upload" /\ (\E o \in UploadOutcomes : gen' = AfterUpload(gen, o)) /\ VideoFrame

VideoNext ==
    \/ callDIDApi
    \/ callJOGGApi
    \/ downloadVideo
    \/ uploadBuffer

(***************************************************************************)
(* Template selector                                                       *)
(***************************************************************************)

defaultTemplateId == "default-therapist"

RECURSIVE PrimaryOf(_, _)
PrimaryOf(prev, rest) ==
    IF rest = << >> THEN prev
    ELSE PrimaryOf(IF Head(rest).intensity > prev.intensity THEN Head(rest) ELSE prev,
                   Tail(rest))

getPrimaryEmotion_First(emotions) ==
    IF Len(emotions) = 0 THEN "neutral" ELSE Head(emotions).name
getPrimaryEmotion(emotions) ==
    IF Len(emotions) = 0 THEN "neutral"
    ELSE PrimaryOf(Head(emotions), Tail(emotions)).name

\* (confidence_score + |sentiment_score|) / 2 against 0.3 and 0.7, in hundredths.
calculateIntensityLevel(m) ==
    LET twice == m.confidence_score + Abs(m.sentiment_score)
    IN IF twice < 60 THEN "low"
       ELSE IF twice < 140 THEN "medium"
       ELSE "high"

extractSelectionFactors_NoRisk(m) ==
    [overallMood |-> m.overall_mood,
     confidenceScore |-> m.confidence_score,
     sentimentScore |-> m.sentiment_score,
     primaryEmotion |-> getPrimaryEmotion(m.emotions),
     intensityLevel |-> calculateIntensityLevel(m),
     riskIndicators |-> 0,
     keyThemes |-> m.key_themes]
extractSelectionFactors(m) ==
    [overallMood |-> m.overall_mood,
     confidenceScore |-> m.confidence_score,
     sentimentScore |-> m.sentiment_score,
     primaryEmotion |-> getPrimaryEmotion(m.emotions),
     intensityLevel |-> calculateIntensityLevel(m),
     riskIndicators |-> Len(m.risk_indicators),
     keyThemes |-> m.key_themes]

SeqRange(s) == { s[i] : i \in 1..Len(s) }

Suggestion(id, confidence, reasoning) ==
    [templateId |-> id, confidence |-> confidence, reasoning |-> reasoning,
     fallbackUsed |-> FALSE]

applySelectionLogic(f) ==
    IF f.riskIndicators > 0
    THEN Suggestion("crisis-support-therapist", 95, "Risk indicators detected - using crisis support template")
    ELSE IF /\ f.overallMood = "positive"
            /\ f.sentimentScore > 60
            /\ f.primaryEmotion \in {"joy", "excitement", "happiness"}
    THEN Suggestion("motivational-coach", 85, "High positive sentiment with joy - using motivational coach template")
    ELSE IF /\ f.overallMood = "negative"
            /\ f.sentimentScore < -60
            /\ f.primaryEmotion \in {"sadness", "anxiety", "stress"}
    THEN Suggestion("empathetic-therapist", 90, "High negative sentiment with distress - using empathetic therapist template")
    ELSE IF f.overallMood = "negative" /\ f.sentimentScore < -20
    THEN Suggestion("supportive-counselor", 80, "Moderate negative sentiment - using supportive counselor template")
    ELSE IF f.overallMood = "neutral" /\ f.intensityLevel = "low"
    THEN Suggestion("life-coach", 75, "Neutral mood with low intensity - using life coach template")
    ELSE IF SeqRange(f.keyThemes) \cap {"work", "career", "professional"} # {}
    THEN Suggestion("career-counselor", 85, "Work-related themes detected - using career counselor template")
    ELSE IF SeqRange(f.keyThemes) \cap {"family", "relationship", "marriage"} # {}
    THEN Suggestion("family-therapist", 85, "Family-related themes detected - using family therapist template")
    ELSE IF SeqRange(f.keyThemes) \cap {"health", "wellness", "fitness"} # {}
    THEN Suggestion("wellness-coach", 80, "Health-related themes detected - using wellness coach template")
    ELSE Suggestion("general-therapist", 70, "General mood profile - using general therapist template")

suggestTemplate_GeneralOnError(optProfile) ==
    IF optProfile = None
    THEN Suggestion("general-therapist", 70,
                    "General mood profile - using general therapist template")
    ELSE applySelectionLogic(extractSelectionFactors(optProfile[1]))
\* The argument is None for a null profile: reading a field of it throws, and
\* the catch block answers with the default.
suggestTemplate(optProfile) ==
    IF optProfile = None
    THEN [templateId |-> defaultTemplateId, confidence |-> 0,
          reasoning |-> "Default template used due to analysis error",
          fallbackUsed |-> TRUE]
    ELSE applySelectionLogic(extractSelectionFactors(optProfile[1]))

\* One call of suggestTemplate: the argument, and the suggestion once the
\* call has returned.
NoSuggestion ==
    [templateId |-> "", confidence |-> 0, reasoning |-> "", fallbackUsed |-> FALSE]

NoSelection == [pc |-> "idle", profile |-> None, result |-> NoSuggestion]

SelectFrame == UNCHANGED <<an, gen, dialogue, videos, upl, task, req, job>>

callSuggestTemplate ==
    /\ sel.pc = "called"
    /\ sel' = [sel EXCEPT !.pc = "returned", !.result = suggestTemplate(sel.profile)]
    /\ SelectFrame

\* availableTemplates is a sequence of [id, category, is_active].
validateTemplateId_IgnoreActive(templateId, availableTemplates) ==
    /\ ~Falsy(templateId)
    /\ \E i \in 1..Len(availableTemplates) : availableTemplates[i].id = templateId
validateTemplateId(templateId, availableTemplates) ==
    /\ ~Falsy(templateId)
    /\ \E i \in 1..Len(availableTemplates) :
          availableTemplates[i].id = templateId /\ availableTemplates[i].is_active

RECURSIVE FindFirst(_, _, _)
FindFirst(ts, general, dflt) ==
    IF ts = << >> THEN dflt
    ELSE IF Head(ts).is_active /\ (~general \/ Head(ts).category = "general")
         THEN Head(ts).id
         ELSE FindFirst(Tail(ts), general, dflt)

getFallbackTemplateId_FirstActive(availableTemplates) ==
    FindFirst(availableTemplates, FALSE, defaultTemplateId)
getFallbackTemplateId(availableTemplates) ==
    FindFirst(availableTemplates, TRUE,
              FindFirst(availableTemplates, FALSE, defaultTemplateId))

\* One call of validateTemplateId or of getFallbackTemplateId: the
\* arguments, and the value once the call has returned.
NoTemplateCall ==
    [pc |-> "idle", templateId |-> "", availableTemplates |-> << >>,
     isValid |-> FALSE, fallbackId |-> ""]

callValidateTemplateId ==
    /\ sel.pc = "validate"
    /\ sel' = [sel EXCEPT !.pc = "validated",
                          !.isValid = validateTemplateId(sel.templateId,
                                                         sel.availableTemplates)]
    /\ SelectFrame

callGetFallbackTemplateId ==
    /\ sel.pc = "fallback"
    /\ sel' = [sel EXCEPT !.pc = "fell_back",
                          !.fallbackId = getFallbackTemplateId(sel.availableTemplates)]
    /\ SelectFrame

(***************************************************************************)
(* What a caller of the two stages can observe of one call                 *)
(***************************************************************************)

RECURSIVE AReach(_, _)
AReach(frontier, seen) ==
    IF frontier = {} THEN seen
    ELSE LET next == (UNION { ASucc(a) : a \in frontier }) \ seen
         IN AReach(next, seen \cup next)

RECURSIVE VReach(_, _)
VReach(frontier, seen) ==
    IF frontier = {} THEN seen
    ELSE LET next == (UNION { VSucc(g) : g \in frontier }) \ seen
         IN VReach(next, seen \cup next)

\* Every attempt of every configured adapter failed.
AllAttemptsFailed(a) ==
    /\ a.hist.elFail = (IF a.elKey THEN maxRetries + 1 ELSE 0)
    /\ a.hist.gFail = (IF a.gKey THEN maxRetries + 1 ELSE 0)

\* The hints the two handlers pass: detectedLanguage of a file upload, and
\* the literal of a recording.
HandlerHints == {"unsupported", "unknown"}

AnalyzeEnds ==
    LET inits == { AInit(h, ek, gk) : h \in HandlerHints, ek \in BOOLEAN, gk \in BOOLEAN }
    IN { a \in AReach(inits, inits) : AEnded(a) }

AnalyzeOutcomes ==
    { [hint |-> a.hint, ended |-> a.pc, result |-> a.result,
       allFailed |-> AllAttemptsFailed(a)] : a \in AnalyzeEnds }

VideoEnds == { g \in VReach({VInit}, {VInit}) : VEnded(g) }

VideoOutcomes == { [ended |-> g.pc, result |-> g.result] : g \in VideoEnds }

(***************************************************************************)
(* Pipeline controller (routes/dialogues)                                  *)
(***************************************************************************)

NumRequests == 2
Requests == 1..NumRequests

\* A record-store call resolves with data, resolves with an error object, or
\* rejects.  Only an "ok" call changes the store.
StoreOutcomes == {"ok", "error", "throw"}

NoRow == [exists |-> FALSE]

NoMeta == [kind |-> "default", api_used |-> "", confidence |-> 0, error |-> ""]

\* The row POST /upload and POST /record insert.
NewDialogueRow(language) ==
    [exists |-> TRUE, status |-> "draft", analysis_status |-> "pending",
     language |-> language, transcript |-> None, mood_analysis |-> None,
     analysis |-> None, analysis_metadata |-> NoMeta]

\* Rows written to the store by other clients, with the mood profile under
\* the key analysis (routes/__tests__/dialogues.test.ts).
FixtureProfiles ==
    { [overall_mood |-> "negative", confidence_score |-> 80, sentiment_score |-> -60,
       emotions |-> << [name |-> "sadness", intensity |-> 80, confidence |-> 80],
                       [name |-> "anxiety", intensity |-> 60, confidence |-> 80] >>,
       key_themes |-> << "stress", "work" >>, risk_indicators |-> << >>,
       recommendations |-> << >>],
      [overall_mood |-> "negative", confidence_score |-> 90, sentiment_score |-> -80,
       emotions |-> << [name |-> "despair", intensity |-> 90, confidence |-> 90] >>,
       key_themes |-> << >>, risk_indicators |-> << "self-harm" >>,
       recommendations |-> << >>] }

FixtureRow(profile) ==
    [exists |-> TRUE, status |-> "analyzed", analysis_status |-> "completed",
     language |-> "english", transcript |-> None, mood_analysis |-> None,
     analysis |-> Some(profile), analysis_metadata |-> NoMeta]

\* ---- POST /upload and POST /record ---------------------------------------
UploadKinds == {"file", "transcript", "recording", "recording_without_audio"}

\* The conditions under which the handlers call triggerAnalysis.
CarriesMedia(kind) == kind \in {"file", "recording"}

\* The hint each handler passes to triggerAnalysis.
HintOf(kind) == IF kind = "file" THEN "unsupported" ELSE "unknown"

\* The properties of the module's exports object, which is what `this` is
\* in the handlers (arrow functions at module level).
ModuleExports == {"__esModule", "default"}

\* this.triggerAnalysis(...) reaches the function only through a property
\* of that name; calling undefined raises a TypeError.
ThisTriggerAnalysisIsCallable == "triggerAnalysis" \in ModuleExports

NoTask == [pc |-> "idle", hint |-> Null, error |-> "", fault |-> FALSE,
           allFailed |-> FALSE, byHandler |-> FALSE]

\* triggerAnalysis runs to its first await: the update to processing is issued.
StartedTask(kind, byHandler) ==
    [NoTask EXCEPT !.pc = "mark", !.hint = HintOf(kind), !.byHandler = byHandler]

\* uploadFile of the media or of the transcript; the language check of a
\* transcript comes first.
UploadStore ==
    /\ upl.pc = "idle"
    /\ ~dialogue.exists
    /\ \E kind \in UploadKinds, stored \in BOOLEAN, lang \in {"english", "hebrew", "unsupported"} :
          /\ kind # "transcript" => lang = "unsupported"
          /\ kind = "recording_without_audio" => stored
          /\ upl' = IF kind = "transcript" /\ lang = "unsupported"
                    THEN [upl EXCEPT !.pc = "done", !.kind = kind, !.resp = 400]
                    ELSE IF ~stored
                    THEN [upl EXCEPT !.pc = "done", !.kind = kind, !.resp = 400]
                    ELSE [upl EXCEPT !.pc = "insert", !.kind = kind,
                                     !.language = IF kind = "file" THEN "unsupported"
                                                  ELSE IF kind = "transcript" THEN lang
                                                  ELSE "unknown"]
    /\ UNCHANGED <<sel, an, gen, dialogue, videos, task, req, job>>

\* The insert, and the rest of the handler: the call of triggerAnalysis and
\* the response.  An exception reaches asyncHandler and is answered 500.
UploadInsert ==
    /\ upl.pc = "insert"
    /\ \E w \in {"ok", "error"} :
          IF w = "error"
          THEN /\ upl' = [upl EXCEPT !.pc = "done", !.resp = 500]
               /\ UNCHANGED <<dialogue, task>>
          ELSE /\ dialogue' = NewDialogueRow(upl.language)
               /\ IF ~CarriesMedia(upl.kind)
                  THEN /\ upl' = [upl EXCEPT !.pc = "done", !.resp = 201, !.inserted = TRUE]
                       /\ UNCHANGED task
                  ELSE IF ThisTriggerAnalysisIsCallable
                  THEN /\ upl' = [upl EXCEPT !.pc = "done", !.resp = 201, !.inserted = TRUE]
                       /\ task' = StartedTask(upl.kind, TRUE)
                  ELSE /\ upl' = [upl EXCEPT !.pc = "done", !.resp = 500, !.inserted = TRUE]
                       /\ UNCHANGED task
    /\ UNCHANGED <<sel, an, gen, videos, req, job>>

\* ---- triggerAnalysis -------------------------------------------------------
\* The function called with the id of the inserted dialogue and its media, as
\* lines 190 and 256 mean to call it.
triggerAnalysis ==
    /\ task.pc = "idle"
    /\ dialogue.exists /\ upl.inserted /\ CarriesMedia(upl.kind)
    /\ task' = StartedTask(upl.kind, FALSE)
    /\ UNCHANGED <<sel, an, gen, dialogue, videos, upl, req, job>>

\* update({ analysis_status: 'processing' })
TaskMarkProcessing ==
    /\ task.pc = "mark"
    /\ \E w \in StoreOutcomes :
          /\ dialogue' = IF w = "ok" THEN [dialogue EXCEPT !.analysis_status = "processing"]
                         ELSE dialogue
          /\ task' = IF w = "throw"
                     THEN [task EXCEPT !.pc = "catch", !.error = "store error", !.fault = TRUE]
                     ELSE [task EXCEPT !.pc = "analyze", !.fault = (w # "ok")]
    /\ UNCHANGED <<sel, an, gen, videos, upl, req, job>>

\* updateData of triggerAnalysis, applied to the row.
StatusAfterAnalysis(row, result) ==
    IF result.confidence > 0 THEN "analyzed" ELSE row.status

AnalysisUpdate_MoodOnly(row, result) ==
    [row EXCEPT !.mood_analysis = Some(result.moodAnalysis)]
AnalysisUpdate(row, result) ==
    [row EXCEPT !.transcript = Some(result.transcript),
                !.mood_analysis = Some(result.moodAnalysis),
                !.analysis_status = "completed",
                !.language = result.language,
                !.analysis_metadata = [kind |-> "result", api_used |-> result.apiUsed,
                                       confidence |-> result.confidence, error |-> ""],
                !.status = StatusAfterAnalysis(row, result)]

FailureUpdate_ResetToPending(row, message) ==
    [row EXCEPT !.analysis_status = "pending",
                !.analysis_metadata = [kind |-> "error", api_used |-> "", confidence |-> 0,
                                       error |-> message]]
\* The update of the catch block.
FailureUpdate(row, message) ==
    [row EXCEPT !.analysis_status = "failed",
                !.analysis_metadata = [kind |-> "error", api_used |-> "", confidence |-> 0,
                                       error |-> message]]

\* await analyzeAudio(...), then update(updateData).
TaskAnalyzeAndSave ==
    /\ task.pc = "analyze"
    /\ \E o \in AnalyzeOutcomes, w \in StoreOutcomes :
          /\ o.hint = task.hint
          /\ IF o.ended = "threw"
             THEN /\ task' = [task EXCEPT !.pc = "catch", !.error = "analysis error",
                                          !.allFailed = o.allFailed]
                  /\ UNCHANGED dialogue
             ELSE /\ dialogue' = IF w = "ok" THEN AnalysisUpdate(dialogue, o.result)
                                 ELSE dialogue
                  /\ task' = IF w = "throw"
                             THEN [task EXCEPT !.pc = "catch", !.error = "store error",
                                               !.fault = TRUE, !.allFailed = o.allFailed]
                             ELSE [task EXCEPT !.pc = "done", !.allFailed = o.allFailed,
                                               !.fault = @ \/ (w # "ok")]
    /\ UNCHANGED <<sel, an, gen, videos, upl, req, job>>

\* The catch block: update({ analysis_status: 'failed', ... }); a rejection
\* of this update is not handled by anyone.
TaskCatch ==
    /\ task.pc = "catch"
    /\ \E w \in StoreOutcomes :
          /\ dialogue' = IF w = "ok" THEN FailureUpdate(dialogue, task.error) ELSE dialogue
          /\ task' = [task EXCEPT !.pc = IF w = "throw" THEN "crashed" ELSE "done",
                                  !.fault = @ \/ (w # "ok")]
    /\ UNCHANGED <<sel, an, gen, videos, upl, req, job>>

\* ---- POST /:id/generate ----------------------------------------------------
\* template_id of the request body as the validator lets it through:
\* absent, or a UUID: the id of a template of the catalog below, or of none.
TemplateIdInputs ==
    {Undefined, "0b9f6c1e-5d1c-4c57-9d2e-7a1f7e3a8c11",
     "7d3e2a40-91b6-4f0e-8c55-2f6a9b1d4e02"}

\* What select('*').eq('is_active', true) on templates can resolve with: a
\* general template under a generated id (the only kind of id a caller can
\* supply) and the crisis template under the id the selector suggests, or
\* no rows.
TemplateLists ==
    { << [id |-> "7d3e2a40-91b6-4f0e-8c55-2f6a9b1d4e02", category |-> "general",
          is_active |-> TRUE],
         [id |-> "crisis-support-therapist", category |-> "crisis", is_active |-> TRUE] >>,
      << >> }

\* A request: where its handler stands, what it read of the dialogue, its
\* choice of template and its response.
NoRequest ==
    [pc |-> "idle", readStatus |-> Null, analysis |-> None,
     finalTemplateId |-> "", activeIds |-> {}, resp |-> 0]

\* A Video record, with the number of updates it received so far.
NoVideo ==
    [exists |-> FALSE, template_id |-> "", activeIds |-> {}, video_url |-> "",
     status |-> "none", provider |-> Null, duration |-> 0, error_message |-> Null,
     writes |-> 0]

NoJob == [pc |-> "idle", error |-> "", fault |-> FALSE]

\* The guard on the dialogue read by the request.
AnalysisIsCompleted_MoodAnalysis(row) ==
    row.mood_analysis # None /\ row.analysis_status = "completed"
AnalysisIsCompleted_NoneInFlight(row) ==
    /\ row.analysis # None /\ row.analysis_status = "completed"
    /\ \A q \in Requests : ~(videos[q].exists /\ videos[q].status = "processing")
AnalysisIsCompleted_Always(row) == TRUE
AnalysisIsCompleted(row) == row.analysis # None /\ row.analysis_status = "completed"

\* The select of the dialogue and the check of its analysis.
GenerateRead(r) ==
    /\ req[r].pc = "idle"
    /\ \E found \in BOOLEAN :
          req' = [req EXCEPT ![r] =
                    IF ~found \/ ~dialogue.exists
                    THEN [@ EXCEPT !.pc = "done", !.resp = 404]
                    ELSE IF ~AnalysisIsCompleted(dialogue)
                    THEN [@ EXCEPT !.pc = "done", !.resp = 400,
                                   !.readStatus = dialogue.analysis_status]
                    ELSE [@ EXCEPT !.pc = "templates",
                                   !.readStatus = dialogue.analysis_status,
                                   !.analysis = dialogue.analysis]]
    /\ UNCHANGED <<sel, an, gen, dialogue, videos, upl, task, job>>

\* finalTemplateId after suggestion, validation and fallback.
FinalTemplateId(template_id, profile, availableTemplates) ==
    LET chosen == IF Falsy(template_id) THEN suggestTemplate(profile).templateId
                  ELSE template_id
    IN IF validateTemplateId(chosen, availableTemplates) THEN chosen
       ELSE getFallbackTemplateId(availableTemplates)

\* The select of the active templates and the choice of the template.
GenerateTemplates(r) ==
    /\ req[r].pc = "templates"
    /\ \E ok \in BOOLEAN, availableTemplates \in TemplateLists, template_id \in TemplateIdInputs :
          LET final == FinalTemplateId(template_id, req[r].analysis, availableTemplates)
              ids == { availableTemplates[i].id : i \in 1..Len(availableTemplates) }
          IN req' = [req EXCEPT ![r] =
                       IF ~ok \/ Len(availableTemplates) = 0
                       THEN [@ EXCEPT !.pc = "done", !.resp = 500]
                       ELSE IF final \notin ids
                       THEN [@ EXCEPT !.pc = "done", !.resp = 500]
                       ELSE [@ EXCEPT !.pc = "insert", !.finalTemplateId = final,
                                      !.activeIds = ids]]
    /\ UNCHANGED <<sel, an, gen, dialogue, videos, upl, task, job>>

NewVideoRow_DefaultTemplate(r) ==
    [NoVideo EXCEPT !.exists = TRUE, !.template_id = defaultTemplateId,
                    !.activeIds = req[r].activeIds, !.video_url = "",
                    !.duration = 0, !.status = "processing"]
\* The insert of the Video record.
NewVideoRow(r) ==
    [NoVideo EXCEPT !.exists = TRUE, !.template_id = req[r].finalTemplateId,
                    !.activeIds = req[r].activeIds, !.video_url = "",
                    !.duration = 0, !.status = "processing"]

GenerateInsertVideo(r) ==
    /\ req[r].pc = "insert"
    /\ \E w \in {"ok", "error"} :
          IF w = "ok"
          THEN /\ videos' = [videos EXCEPT ![r] = NewVideoRow(r)]
               /\ req' = [req EXCEPT ![r].pc = "update"]
          ELSE /\ req' = [req EXCEPT ![r].pc = "done", ![r].resp = 500]
               /\ UNCHANGED videos
    /\ UNCHANGED <<sel, an, gen, dialogue, upl, task, job>>

\* update({ status: 'generated' }), the start of the detached job, and the
\* response.
GeneratedStatus_Draft == "draft"
GeneratedStatus == "generated"

GenerateUpdateDialogue(r) ==
    /\ req[r].pc = "update"
    /\ \E w \in StoreOutcomes :
          /\ dialogue' = IF w = "ok" THEN [dialogue EXCEPT !.status = GeneratedStatus]
                         ELSE dialogue
          /\ IF w = "throw"
             THEN /\ req' = [req EXCEPT ![r].pc = "done", ![r].resp = 500]
                  /\ UNCHANGED job
             ELSE /\ req' = [req EXCEPT ![r].pc = "done", ![r].resp = 202]
                  /\ job' = [job EXCEPT ![r].pc = "generating"]
    /\ UNCHANGED <<sel, an, gen, videos, upl, task>>

\* ---- the detached job -------------------------------------------------------
JobUpdate_KeepProcessing(row, result) ==
    [row EXCEPT !.video_url = result.videoUrl, !.writes = @ + 1]
\* The update of the try block: the fields of the result.
JobUpdate(row, result) ==
    [row EXCEPT !.video_url = result.videoUrl,
                !.status = result.status,
                !.provider = result.provider,
                !.duration = IF Falsy(result.duration) THEN 0 ELSE result.duration,
                !.error_message = result.errorMessage,
                !.writes = @ + 1]

\* The update of the catch block.
JobFailureUpdate(row, message) ==
    [row EXCEPT !.status = "failed", !.error_message = message, !.writes = @ + 1]

\* await generateAvatarVideo(...), then the update of the Video record.
JobGenerateAndUpdate(r) ==
    /\ job[r].pc = "generating"
    /\ \E o \in VideoOutcomes, w \in StoreOutcomes :
          IF o.ended = "threw"
          THEN /\ job' = [job EXCEPT ![r].pc = "catch", ![r].error = "generation error"]
               /\ UNCHANGED videos
          ELSE /\ videos' = IF w = "ok" THEN [videos EXCEPT ![r] = JobUpdate(@, o.result)]
                            ELSE videos
               /\ job' = [job EXCEPT ![r] =
                            IF w = "throw"
                            THEN [@ EXCEPT !.pc = "catch", !.error = "store error",
                                           !.fault = TRUE]
                            ELSE [@ EXCEPT !.pc = "done", !.fault = (w # "ok")]]
    /\ UNCHANGED <<sel, an, gen, dialogue, upl, task, req>>

\* The catch block of the job; a rejection of its update is not handled.
JobCatch(r) ==
    /\ job[r].pc = "catch"
    /\ \E w \in StoreOutcomes :
          /\ videos' = IF w = "ok"
                       THEN [videos EXCEPT ![r] = JobFailureUpdate(@, job[r].error)]
                       ELSE videos
          /\ job' = [job EXCEPT ![r].pc = IF w = "throw" THEN "crashed" ELSE "done",
                                ![r].fault = @ \/ (w # "ok")]
    /\ UNCHANGED <<sel, an, gen, dialogue, upl, task, req>>

\* ---- specifications ----------------------------------------------------------
NoUpload == [pc |-> "idle", kind |-> "none", language |-> "", resp |-> 0, inserted |-> FALSE]

\* The controller runs; the two stage machines stand still (their calls are
\* taken whole, through AnalyzeOutcomes and VideoOutcomes).
Init ==
    /\ sel = NoSelection
    /\ an = AInit(Null, FALSE, FALSE)
    /\ gen = VInit
    /\ dialogue \in {NoRow} \cup { FixtureRow(p) : p \in FixtureProfiles }
    /\ videos = [r \in Requests |-> NoVideo]
    /\ upl = NoUpload
    /\ task = NoTask
    /\ req = [r \in Requests |-> NoRequest]
    /\ job = [r \in Requests |-> NoJob]

Next ==
    \/ UploadStore
    \/ UploadInsert
    \/ triggerAnalysis
    \/ TaskMarkProcessing
    \/ TaskAnalyzeAndSave
    \/ TaskCatch
    \/ \E r \in Requests :
          \/ GenerateRead(r)
          \/ GenerateTemplates(r)
          \/ GenerateInsertVideo(r)
          \/ GenerateUpdateDialogue(r)
          \/ JobGenerateAndUpdate(r)
          \/ JobCatch(r)

Spec == Init /\ [][Next]_vars

\* The controller under the assumption that every call that was issued
\* (to a provider, to the blob store, to the record store) returns or fails:
\* a handler, a task or a job that waits for a call takes its next step.
\* The arrival of requests is not assumed.
Fairness ==
    /\ WF_vars(UploadInsert)
    /\ WF_vars(TaskMarkProcessing)
    /\ WF_vars(TaskAnalyzeAndSave)
    /\ WF_vars(TaskCatch)
    /\ \A r \in Requests :
          /\ WF_vars(GenerateTemplates(r))
          /\ WF_vars(GenerateInsertVideo(r))
          /\ WF_vars(GenerateUpdateDialogue(r))
          /\ WF_vars(JobGenerateAndUpdate(r))
          /\ WF_vars(JobCatch(r))

SpecLive == Init /\ [][Next]_vars /\ Fairness

\* The controller at rest.
ControllerIdle ==
    /\ dialogue = NoRow
    /\ videos = [r \in Requests |-> NoVideo]
    /\ upl = NoUpload
    /\ task = NoTask
    /\ req = [r \in Requests |-> NoRequest]
    /\ job = [r \in Requests |-> NoJob]

\* One analyzeAudio call, step by step.
InitAnalyze == AnalyzeInit /\ gen = VInit /\ ControllerIdle /\ sel = NoSelection
SpecAnalyze == InitAnalyze /\ [][AnalyzeNext]_vars

\* One generateAvatarVideo call, step by step.
InitVideo == VideoInit /\ an = AInit(Null, FALSE, FALSE) /\ ControllerIdle /\ sel = NoSelection
SpecVideo == InitVideo /\ [][VideoNext]_vars

\* One suggestTemplate call on each mood profile of a bounded set, and on null.
SelectMoods == {"positive", "negative", "neutral"}
SelectConfidences == {10, 40, 50, 80}
SelectSentiments == {-70, -60, -40, -20, 0, 20, 60, 70}
SelectEmotions ==
    { << >>,
      << [name |-> "joy", intensity |-> 80, confidence |-> 80] >>,
      << [name |-> "stress", intensity |-> 70, confidence |-> 80] >>,
      << [name |-> "joy", intensity |-> 80, confidence |-> 80],
         [name |-> "calm", intensity |-> 80, confidence |-> 80] >>,
      << [name |-> "calm", intensity |-> 80, confidence |-> 80],
         [name |-> "joy", intensity |-> 80, confidence |-> 80] >>,
      << [name |-> "calm", intensity |-> 50, confidence |-> 80],
         [name |-> "sadness", intensity |-> 90, confidence |-> 80],
         [name |-> "anxiety", intensity |-> 80, confidence |-> 80] >> }
SelectRisks == { << >>, << "self-harm", "suicidal-thoughts" >> }
SelectThemes ==
    { << >>, << "work" >>, << "family", "relationship", "marriage" >>, << "health" >>,
      << "family", "career" >>, << "success", "wellness" >> }

SelectProfiles ==
    { [overall_mood |-> m, confidence_score |-> c, sentiment_score |-> s,
       emotions |-> e, key_themes |-> t, risk_indicators |-> k,
       recommendations |-> << >>] :
         m \in SelectMoods, c \in SelectConfidences, s \in SelectSentiments,
         e \in SelectEmotions, t \in SelectThemes, k \in SelectRisks }

InitSelect ==
    /\ sel \in { [NoSelection EXCEPT !.pc = "called", !.profile = p] :
                    p \in {None} \cup { Some(q) : q \in SelectProfiles } }
    /\ an = AInit(Null, FALSE, FALSE)
    /\ gen = VInit
    /\ ControllerIdle

SelectNext == callSuggestTemplate

SpecSelect == InitSelect /\ [][SelectNext]_vars

\* One validateTemplateId or getFallbackTemplateId call on each list of at
\* most MaxTemplates templates of the tests' catalog (active and inactive).
MaxTemplates == 3
CatalogTemplates ==
    { [id |-> "general-therapist", category |-> "general", is_active |-> TRUE],
      [id |-> "general-therapist", category |-> "general", is_active |-> FALSE],
      [id |-> "empathetic-therapist", category |-> "emotional", is_active |-> TRUE],
      [id |-> "crisis-support-therapist", category |-> "crisis", is_active |-> TRUE],
      [id |-> "inactive-template", category |-> "test", is_active |-> FALSE] }
CatalogLists ==
    UNION { [1..n -> CatalogTemplates] : n \in 0..MaxTemplates }
CatalogIds ==
    {"", Null, "general-therapist", "empathetic-therapist", "inactive-template",
     "non-existent-template"}

InitTemplates ==
    /\ sel \in { [NoTemplateCall EXCEPT !.pc = "validate", !.templateId = id,
                                        !.availableTemplates = ts] :
                    id \in CatalogIds, ts \in CatalogLists }
               \cup { [NoTemplateCall EXCEPT !.pc = "fallback", !.availableTemplates = ts] :
                       ts \in CatalogLists }
    /\ an = AInit(Null, FALSE, FALSE)
    /\ gen = VInit
    /\ ControllerIdle

TemplatesNext ==
    \/ callValidateTemplateId
    \/ callGetFallbackTemplateId

SpecTemplates == InitTemplates /\ [][TemplatesNext]_vars

(***************************************************************************)
(* Properties                                                              *)
(***************************************************************************)

\* C1: analyzeAudio never throws to its caller: whenever the call has ended
\* it has returned, and what it returned is an AnalysisResult (a language of
\* the three, an adapter name of the three, a mood profile with a mood).
C1_AnalyzeAudioAlwaysReturns ==
    /\ an.pc # "threw"
    /\ an.pc = "returned" =>
          /\ an.result.language \in {"hebrew", "english", "unknown"}
          /\ an.result.apiUsed \in {"elevenlabs", "google", "fallback"}
          /\ an.result.moodAnalysis.overall_mood \in {"positive", "negative", "neutral", "mixed"}
          /\ an.result.confidence \in 0..100

\* C1 witness: both adapters were configured, every attempt of both failed,
\* and the call returned the fallback result.
C1_Witness ==
    /\ an.pc = "returned" /\ an.result.apiUsed = "fallback"
    /\ an.hist.elFail = maxRetries + 1 /\ an.hist.gFail = maxRetries + 1

\* C2: generateAvatarVideo never throws to its caller, and the status of the
\* result it returns is completed or failed, never pending or processing.
C2_GenerateAvatarVideoAlwaysReturns ==
    /\ gen.pc # "threw"
    /\ gen.pc = "returned" => gen.result.status \in {"completed", "failed"}

\* C2 witness: a provider gave a URL, every download/upload attempt failed,
\* and the call returned.
C2_Witness ==
    /\ gen.pc = "returned" /\ gen.result.status = "failed"
    /\ gen.hist.downloads = STORAGE_RETRY_LIMIT + 1
    /\ gen.hist.uploads > 0

\* C3: a completed result carries the blob-store URL; a provider's URL is
\* never the videoUrl of a result of generateAvatarVideo and is never the
\* video_url of a Video record.
C3_OnlyStorageUrlIsPublished ==
    /\ \A o \in VideoOutcomes :
          /\ o.result.videoUrl \notin ProviderUrls
          /\ o.result.status = "completed" => o.result.videoUrl = StorageUrl
    /\ \A r \in Requests :
          /\ videos[r].video_url \notin ProviderUrls
          /\ videos[r].status = "completed" => videos[r].video_url = StorageUrl

\* C3 witness: a job wrote a completed result obtained from JOGG.
C3_Witness ==
    \E r \in Requests :
       /\ videos[r].status = "completed" /\ videos[r].provider = "JOGG"
       /\ videos[r].video_url = StorageUrl /\ job[r].pc = "done"

C5_StatusNeverRegresses ==
    [][(dialogue.exists /\ dialogue'.exists) =>
          <<dialogue.status, dialogue'.status>> \in
             { <<"draft", "draft">>, <<"draft", "analyzed">>, <<"draft", "generated">>,
               <<"analyzed", "analyzed">>, <<"analyzed", "generated">>,
               <<"generated", "generated">> }
      ]_vars

\* C5 witness: a generate request was answered while the analysis task was
\* running, and the task then took the dialogue to analyzed.
C5_Witness ==
    /\ dialogue.exists /\ dialogue.status = "analyzed" /\ task.pc = "done"
    /\ \E r \in Requests : req[r].pc = "done" /\ req[r].readStatus = "processing"

\* C6: mood_analysis is non-null only on a dialogue whose analysis_status is
\* completed; the writes of processing and of failed leave it null.
C6_MoodOnlyWhenCompleted ==
    dialogue.exists =>
       /\ dialogue.mood_analysis # None => dialogue.analysis_status = "completed"
       /\ dialogue.analysis_status \in {"pending", "processing", "failed"} =>
             dialogue.mood_analysis = None

\* C6 witness: the task saved the mood profile and ended.
C6_Witness ==
    /\ dialogue.exists /\ dialogue.mood_analysis # None
    /\ dialogue.analysis_status = "completed" /\ task.pc = "done"

\* C7: a request that has a Video record, a job, or stands past the guard
\* read analysis_status completed; and the step in which a request reads
\* pending, processing or failed answers it 400, ends it, and leaves the
\* dialogue (its status included), the Video records and the jobs unchanged.
C7_GenerateOnlyWhenCompleted ==
    [][\A r \in Requests :
          /\ (videos'[r].exists \/ job'[r].pc # "idle"
                 \/ req'[r].pc \in {"templates", "insert", "update"}) =>
                req'[r].readStatus = "completed"
          /\ req'[r].readStatus \in {"pending", "processing", "failed"} =>
                /\ req'[r].pc = "done" /\ req'[r].resp = 400
                /\ ~videos'[r].exists /\ job'[r].pc = "idle"
                /\ req[r].pc = "idle" => (dialogue' = dialogue /\ videos' = videos /\ job' = job)
      ]_vars

\* C7 witness: a request on a dialogue whose analysis failed was rejected.
C7_Witness ==
    \E r \in Requests :
       /\ req[r].pc = "done" /\ req[r].readStatus = "failed" /\ req[r].resp = 400
       /\ ~videos[r].exists

\* C8 (does not hold): a generate request that read a dialogue the analysis
\* task completed, mood_analysis saved, is accepted.
C8_PipelineDialogueIsAccepted ==
    \A r \in Requests :
       (/\ req[r].pc = "done" /\ req[r].readStatus = "completed"
        /\ task.pc = "done" /\ dialogue.mood_analysis # None) => req[r].resp # 400

\* C9 (does not hold): an upload or a recording with media is answered 201
\* and its handler has started the analysis task.
C9_MediaUploadStartsAnalysis ==
    (upl.pc = "done" /\ upl.inserted /\ CarriesMedia(upl.kind)) =>
       upl.resp = 201 /\ task.byHandler

\* C10: when every attempt of both adapters failed and every store call of
\* the task was applied, the task ends with analysis_status completed,
\* language unknown and a neutral mood profile.
C10_AllFailedEndsCompletedNeutral ==
    (task.pc = "done" /\ task.allFailed /\ ~task.fault) =>
       /\ dialogue.analysis_status = "completed"
       /\ dialogue.language = "unknown"
       /\ dialogue.mood_analysis # None
       /\ dialogue.mood_analysis[1].overall_mood = "neutral"

\* C10 witness: such a task has ended; the dialogue stays a draft.
C10_Witness ==
    /\ task.pc = "done" /\ task.allFailed /\ ~task.fault
    /\ dialogue.analysis_status = "completed" /\ dialogue.status = "draft"
    /\ dialogue.analysis_metadata.api_used = "fallback"

\* C11 (does not hold): when a store write of the try block of the analysis
\* task failed (the store answered with an error object, so the catch block
\* was never entered) the task ends with analysis_status failed, the error
\* message recorded, mood_analysis null and the status not advanced.
C11_FailedWriteMarksFailed ==
    (task.pc = "done" /\ task.fault /\ task.error = "") =>
       /\ dialogue.analysis_status = "failed"
       /\ dialogue.analysis_metadata.kind = "error"
       /\ dialogue.mood_analysis = None
       /\ dialogue.status = "draft"

C13_MissingKeySkipsAdapter ==
    /\ ~an.elKey => (an.hist.elStt = 0 /\ an.hist.elSent = 0 /\ an.hist.elFail = 0
                     /\ an.pc \notin {"el_stt", "el_sent", "el_delay"})
    /\ ~an.gKey => (an.hist.gStt = 0 /\ an.hist.gSent = 0 /\ an.hist.gFail = 0
                    /\ an.pc \notin {"g_stt", "g_sent", "g_delay"})
    /\ Len(an.hist.delays) <= (IF an.elKey THEN maxRetries ELSE 0)
                              + (IF an.gKey THEN maxRetries ELSE 0)
    /\ (~an.elKey /\ an.gKey /\ an.pc # "entry" /\ an.hist.gStt = 0) =>
          (an.pc = "g_stt" /\ an.hist.delays = << >>)
    /\ (~an.elKey /\ ~an.gKey /\ an.pc # "entry") =>
          (an.pc = "returned" /\ an.result.apiUsed = "fallback" /\ an.hist.delays = << >>)

\* C13 witness: ElevenLabs has no key, Google has one and answered.
C13_Witness ==
    /\ ~an.elKey /\ an.gKey /\ an.pc = "returned" /\ an.result.apiUsed = "google"
    /\ an.hist.elStt = 0

\* C14: when both adapters are exhausted the call returns exactly the
\* fallback record: apiUsed fallback, empty transcript, language unknown,
\* confidence 0, the neutral profile with one neutral emotion and no themes
\* or risk indicators, fallbackUsed and neutralFallbackApplied true.
C14_ExhaustionReturnsFallback ==
    (an.pc = "returned" /\ AllAttemptsFailed(an)) =>
       /\ an.result.apiUsed = "fallback"
       /\ an.result.transcript = NoText
       /\ an.result.language = "unknown"
       /\ an.result.confidence = 0
       /\ an.result.moodAnalysis.overall_mood = "neutral"
       /\ an.result.moodAnalysis.confidence_score = 0
       /\ an.result.moodAnalysis.sentiment_score = 0
       /\ Len(an.result.moodAnalysis.emotions) = 1
       /\ an.result.moodAnalysis.emotions[1].name = "neutral"
       /\ an.result.moodAnalysis.key_themes = << >>
       /\ an.result.moodAnalysis.risk_indicators = << >>
       /\ an.result.metadata.fallbackUsed
       /\ an.result.metadata.neutralFallbackApplied

\* C14 witness: ElevenLabs exhausted its attempts, Google has no key.
C14_Witness ==
    /\ an.pc = "returned" /\ an.elKey /\ ~an.gKey
    /\ an.hist.elFail = maxRetries + 1 /\ an.result.apiUsed = "fallback"

\* C15: a provider result with confidence below the gate is returned with
\* overall_mood neutral, confidence_score 0.5, sentiment_score 0 and
\* neutralFallbackApplied true, whatever mood the provider gave; a result at
\* or above the gate is returned with the provider's mood profile as it was;
\* in both cases the transcript and the confidence are the provider's.
C15_ConfidenceGate ==
    (an.pc = "returned" /\ an.result.apiUsed \in {"elevenlabs", "google"}) =>
       /\ an.hist.mood # None
       /\ an.result.transcript = an.text
       /\ an.result.confidence = an.tconf
       /\ IF an.tconf < ConfidenceGate
          THEN /\ an.result.moodAnalysis.overall_mood = "neutral"
               /\ an.result.moodAnalysis.confidence_score = 50
               /\ an.result.moodAnalysis.sentiment_score = 0
               /\ an.result.metadata.neutralFallbackApplied
          ELSE /\ an.result.moodAnalysis = an.hist.mood[1]
               /\ ~an.result.metadata.neutralFallbackApplied

\* C15 witness: the provider reported a negative mood on a transcript of
\* confidence 0.5, and the returned profile is neutral.
C15_Witness ==
    /\ an.pc = "returned" /\ an.result.apiUsed = "elevenlabs" /\ an.tconf = 50
    /\ an.hist.mood # None /\ an.hist.mood[1].overall_mood = "negative"
    /\ an.result.moodAnalysis.overall_mood = "neutral"

\* C16 (does not hold): every returned AnalysisResult has at least one
\* emotion in its mood profile.
C16_EmotionsNeverEmpty ==
    an.pc = "returned" => Len(an.result.moodAnalysis.emotions) > 0

\* C17: the step in which D-ID answers without a media URL leads to the JOGG
\* call of the same iteration; and the download, the upload and a completed
\* result happen only with a non-empty URL that a provider returned.
C17_EmptyUrlIsFailure ==
    [][/\ (gen.pc = "did" /\ gen'.hist.didCalls = gen.hist.didCalls + 1
             /\ gen'.videoUrl = "") =>
             (gen'.pc = "jogg" /\ gen'.attempt = gen.attempt /\ gen'.provider = "JOGG")
       /\ (gen'.pc \in {"download", "upload"}
             \/ (gen'.pc = "returned" /\ gen'.result.status = "completed")) =>
             gen'.videoUrl \in ProviderUrls
       /\ gen'.hist.fetched \subseteq ProviderUrls
      ]_vars

\* C17 witness: D-ID answered without a URL in the first iteration and the
\* JOGG call of that iteration is in flight.
C17_Witness ==
    /\ gen.pc = "jogg" /\ gen.attempt = 0 /\ gen.hist.didCalls = 1
    /\ gen.providerResponse = "did_data_without_url"

\* C18: when both providers failed in every iteration the call returns
\* status failed, videoUrl '', provider JOGG, no duration and no
\* providerResponse, and nothing was downloaded or uploaded.
C18_BothFailedResult ==
    (/\ gen.pc = "returned" /\ gen.videoUrl = ""
     /\ gen.hist.didCalls = PROVIDER_RETRY_LIMIT
     /\ gen.hist.joggCalls = PROVIDER_RETRY_LIMIT) =>
       /\ gen.result.status = "failed"
       /\ gen.result.videoUrl = ""
       /\ gen.result.provider = "JOGG"
       /\ gen.result.duration = Undefined
       /\ gen.result.providerResponse = Undefined
       /\ gen.hist.downloads = 0 /\ gen.hist.uploads = 0 /\ gen.hist.fetched = {}

\* C18 witness: four failed provider calls, the last JOGG answer without a
\* URL, and the call returned.
C18_Witness ==
    /\ gen.pc = "returned" /\ gen.hist.didCalls = PROVIDER_RETRY_LIMIT
    /\ gen.hist.joggCalls = PROVIDER_RETRY_LIMIT
    /\ gen.providerResponse = "jogg_data_without_url" /\ gen.result.provider = "JOGG"

\* C19 (does not hold): when every call of both providers failed, the
\* errorMessage of the result is the 'Both video providers failed' message.
C19_BothFailedMessage ==
    (/\ gen.pc = "returned" /\ gen.videoUrl = ""
     /\ gen.hist.didCalls = PROVIDER_RETRY_LIMIT
     /\ gen.hist.joggCalls = PROVIDER_RETRY_LIMIT) =>
       gen.result.errorMessage = BothFailedMessage

\* C20: the download-and-upload step is attempted at most
\* STORAGE_RETRY_LIMIT + 1 times; a call that ends after the step failed has
\* made exactly that many attempts and returns status failed, videoUrl ''
\* and the message of a storage error.
C20_StorageRetriedToLimit ==
    /\ gen.hist.downloads <= STORAGE_RETRY_LIMIT + 1
    /\ gen.retry <= STORAGE_RETRY_LIMIT
    /\ gen.hist.uploads <= gen.hist.downloads
    /\ (gen.pc = "returned" /\ gen.hist.downloads > 0 /\ gen.result.status # "completed") =>
          /\ gen.hist.downloads = STORAGE_RETRY_LIMIT + 1
          /\ gen.result.status = "failed"
          /\ gen.result.videoUrl = ""
          /\ gen.result.errorMessage \in
                { o.message : o \in { x \in DownloadOutcomes \cup UploadOutcomes :
                                         x.kind = "reject" } }

\* C20 witness: four attempts, each failing at the download, after JOGG's
\* URL; the call returned failed.
C20_Witness ==
    /\ gen.pc = "returned" /\ gen.hist.downloads = STORAGE_RETRY_LIMIT + 1
    /\ gen.hist.uploads = 0 /\ gen.result.status = "failed"
    /\ gen.result.provider = "JOGG" /\ gen.hist.fetched = {JoggUrl}

\* C21: a completed result names the provider whose URL was fetched and
\* uploaded: D-ID for D-ID's URL, JOGG for JOGG's, whichever provider was
\* attempted last in an earlier iteration.
C21_ProviderIsTheOneThatProduced ==
    (gen.pc = "returned" /\ gen.result.status = "completed") =>
       /\ gen.hist.fetched \in {{DidUrl}, {JoggUrl}}
       /\ gen.hist.fetched = {DidUrl} => gen.result.provider = "D-ID"
       /\ gen.hist.fetched = {JoggUrl} => gen.result.provider = "JOGG"

\* C21 witness: the first iteration ended with JOGG failing, the second with
\* D-ID's URL, and the completed result names D-ID.
C21_Witness ==
    /\ gen.pc = "returned" /\ gen.result.status = "completed"
    /\ gen.hist.joggCalls = 1 /\ gen.hist.didCalls = 2
    /\ gen.hist.fetched = {DidUrl} /\ gen.result.provider = "D-ID"

\* C22 (does not hold): every completed result of generateAvatarVideo has
\* errorMessage undefined.
C22_CompletedHasNoErrorMessage ==
    (gen.pc = "returned" /\ gen.result.status = "completed") =>
       gen.result.errorMessage = Undefined

\* C23: the template_id of every Video record is the id of a template of
\* the active set that the same request fetched; the supplied id that names
\* no template is never stored.
C23_CommittedTemplateIsActive ==
    \A r \in Requests :
       videos[r].exists =>
          /\ videos[r].template_id \in videos[r].activeIds
          /\ \E t \in TemplateLists : \E i \in DOMAIN t :
                t[i].is_active /\ t[i].id = videos[r].template_id
          /\ videos[r].template_id # "0b9f6c1e-5d1c-4c57-9d2e-7a1f7e3a8c11"

\* C23 witness: for a dialogue whose profile has risk indicators, one Video
\* record holds the suggested crisis template, the other the general
\* template (supplied by its id, or substituted for an id of no template).
C23_Witness ==
    /\ dialogue.exists /\ dialogue.analysis # None
    /\ Len(dialogue.analysis[1].risk_indicators) > 0
    /\ videos[1].exists /\ videos[1].template_id = "crisis-support-therapist"
    /\ videos[2].exists /\ videos[2].template_id = "7d3e2a40-91b6-4f0e-8c55-2f6a9b1d4e02"

\* C24: a generate request is answered 400 only when the dialogue it read
\* had no completed analysis, never because another request for the same
\* dialogue is in flight; so two triggers are both accepted.
C24_DuplicateTriggersAccepted ==
    \A r \in Requests :
       (req[r].pc = "done" /\ req[r].resp = 400) =>
          (dialogue.analysis = None \/ req[r].readStatus # "completed")

\* C24 witness: two Video records of the one dialogue, both processing, both
\* requests answered 202 and both jobs running.
C24_Witness ==
    /\ videos[1].exists /\ videos[1].status = "processing"
    /\ videos[2].exists /\ videos[2].status = "processing"
    /\ req[1].resp = 202 /\ req[2].resp = 202
    /\ job[1].pc = "generating" /\ job[2].pc = "generating"

C26_RiskYieldsCrisis ==
    (sel.pc = "returned" /\ sel.profile # None
       /\ Len(sel.profile[1].risk_indicators) > 0) =>
       /\ sel.result.templateId = "crisis-support-therapist"
       /\ sel.result.confidence = 95
       /\ sel.result.fallbackUsed = FALSE

\* C26 witness: the call returned for a profile with risk indicators, mood
\* positive, sentiment 0.7 and primary emotion joy.
C26_Witness ==
    /\ sel.pc = "returned" /\ sel.profile # None
    /\ Len(sel.profile[1].risk_indicators) > 0
    /\ sel.profile[1].overall_mood = "positive"
    /\ sel.profile[1].sentiment_score = 70
    /\ Len(sel.profile[1].emotions) = 1 /\ sel.profile[1].emotions[1].name = "joy"
    /\ sel.result.templateId = "crisis-support-therapist"

C28_NullProfileYieldsDefault ==
    /\ sel.pc \in {"idle", "called", "returned"}
    /\ (sel.pc = "returned" /\ sel.profile = None) =>
          /\ sel.result.templateId = defaultTemplateId
          /\ sel.result.confidence = 0
          /\ sel.result.fallbackUsed = TRUE
    /\ (sel.pc = "returned" /\ sel.profile # None) => sel.result.fallbackUsed = FALSE

\* C28 witness: the call with null has returned the default suggestion.
C28_Witness ==
    /\ sel.pc = "returned" /\ sel.profile = None
    /\ sel.result.templateId = "default-therapist"
    /\ sel.result.reasoning = "Default template used due to analysis error"

\* C29 (does not hold): for the neutral profile with confidence_score 0.5,
\* sentiment_score 0, no emotions, no risk indicators and no themes,
\* suggestTemplate returns general-therapist with fallbackUsed false.
C29_EmptyNeutralYieldsGeneral ==
    (/\ sel.pc = "returned" /\ sel.profile # None
     /\ sel.profile[1].overall_mood = "neutral"
     /\ sel.profile[1].confidence_score = 50
     /\ sel.profile[1].sentiment_score = 0
     /\ sel.profile[1].emotions = << >>
     /\ sel.profile[1].risk_indicators = << >>
     /\ sel.profile[1].key_themes = << >>) =>
       /\ sel.result.templateId = "general-therapist"
       /\ sel.result.fallbackUsed = FALSE

\* C30 (does not hold): for a profile without risk indicators whose themes
\* include family, relationship or marriage, with mood negative and
\* sentiment_score -0.4, suggestTemplate returns family-therapist.
C30_FamilyThemesYieldFamily ==
    (/\ sel.pc = "returned" /\ sel.profile # None
     /\ sel.profile[1].risk_indicators = << >>
     /\ sel.profile[1].overall_mood = "negative"
     /\ sel.profile[1].sentiment_score = -40
     /\ \E i \in DOMAIN sel.profile[1].key_themes :
           sel.profile[1].key_themes[i] \in {"family", "relationship", "marriage"}) =>
       /\ sel.result.templateId = "family-therapist"
       /\ sel.result.reasoning
             = "Family-related themes detected - using family therapist template"

\* C31: validateTemplateId is true exactly when the id is non-empty and
\* some template of the list has that id and is active; so it is false for
\* an inactive or unknown id, for an empty or null id and for the empty list.
C31_ValidIffActiveMatch ==
    sel.pc = "validated" =>
       LET ts == sel.availableTemplates
           id == sel.templateId
       IN /\ sel.isValid <=>
                (/\ id \notin {"", Null}
                 /\ \E i \in DOMAIN ts : ts[i].id = id /\ ts[i].is_active = TRUE)
          /\ ts = << >> => ~sel.isValid
          /\ id \in {"", Null, "non-existent-template", "inactive-template"} => ~sel.isValid

\* C31 witness: the id of a template that the list holds only as inactive
\* was validated against a list with other active templates, and rejected.
C31_Witness ==
    /\ sel.pc = "validated" /\ ~sel.isValid
    /\ sel.templateId = "general-therapist"
    /\ \E i \in DOMAIN sel.availableTemplates :
          sel.availableTemplates[i].id = "general-therapist"
    /\ \E i \in DOMAIN sel.availableTemplates : sel.availableTemplates[i].is_active

\* C32: getFallbackTemplateId returns the id of the first active template
\* of category general, else of the first active template, else
\* default-therapist; the id passes validateTemplateId against the same
\* list whenever the list has an active template.
C32_FallbackOrder ==
    sel.pc = "fell_back" =>
       LET ts == sel.availableTemplates
           generals == { i \in DOMAIN ts : ts[i].is_active /\ ts[i].category = "general" }
           actives == { i \in DOMAIN ts : ts[i].is_active }
           least(S) == CHOOSE i \in S : \A j \in S : i <= j
       IN /\ sel.fallbackId = IF generals # {} THEN ts[least(generals)].id
                              ELSE IF actives # {} THEN ts[least(actives)].id
                              ELSE "default-therapist"
          /\ actives # {} => validateTemplateId(sel.fallbackId, ts)
          /\ actives = {} => ~validateTemplateId(sel.fallbackId, ts)

\* C32 witness: the list starts with an active template of another
\* category and holds an active general template further on, whose id was
\* returned.
C32_Witness ==
    /\ sel.pc = "fell_back" /\ sel.fallbackId = "general-therapist"
    /\ Len(sel.availableTemplates) = 3
    /\ sel.availableTemplates[1].id = "crisis-support-therapist"
    /\ sel.availableTemplates[2].is_active = FALSE

\* C33: on a result that a provider produced, languageOverride is true
\* exactly when a hint was given, the hint is not unknown and the hint
\* differs from the detected language; the language returned is the
\* detected one (hebrew for any Hebrew-block character, else english for any
\* Latin letter, else unknown), never the hint.
C33_LanguageOverride ==
    (an.pc = "returned" /\ an.result.apiUsed \in {"elevenlabs", "google"}) =>
       LET t == an.result.transcript
           detected == IF t.heb THEN "hebrew" ELSE IF t.lat THEN "english" ELSE "unknown"
       IN /\ an.result.language = detected
          /\ an.result.metadata.languageOverride <=>
                (an.hint # Null /\ an.hint # "unknown" /\ an.hint # detected)

\* C33 witness: the hint english with a transcript of Hebrew and Latin
\* letters: the language returned is hebrew and the override flag is set.
C33_Witness ==
    /\ an.pc = "returned" /\ an.hint = "english"
    /\ an.result.transcript.heb /\ an.result.transcript.lat
    /\ an.result.language = "hebrew"
    /\ an.result.metadata.languageOverride

\* C34: one call makes at most 2 calls to D-ID and at most 2 to JOGG; JOGG
\* is called in an iteration only after the D-ID call of that iteration
\* failed; and once a provider has returned a media URL no provider is
\* called any more.
C34_ProviderLoopBounded ==
    /\ [](/\ gen.hist.didCalls <= 2 /\ gen.hist.joggCalls <= 2
          /\ gen.pc = "did" =>
                (gen.hist.didCalls = gen.attempt /\ gen.hist.joggCalls = gen.attempt)
          /\ gen.pc = "jogg" =>
                (/\ gen.hist.didCalls = gen.attempt + 1
                 /\ gen.hist.joggCalls = gen.attempt
                 /\ gen.videoUrl = ""))
    /\ [][gen.videoUrl # "" =>
             /\ gen'.hist.didCalls = gen.hist.didCalls
             /\ gen'.hist.joggCalls = gen.hist.joggCalls
             /\ gen'.videoUrl = gen.videoUrl]_vars

\* C34 witness: the fourth provider call, JOGG's second, returned the URL
\* and the download is about to start.
C34_Witness ==
    /\ gen.pc = "download" /\ gen.hist.downloads = 0
    /\ gen.hist.didCalls = 2 /\ gen.hist.joggCalls = 2
    /\ gen.videoUrl = JoggUrl

\* C36: the waits of one call are, per adapter, 1000 ms after the first
\* failed attempt and 2000 ms after the second, and none after the third.
C36_ExponentialBackoff ==
    LET backoff == << 1000, 2000 >>
        waited(fails, waiting) ==
           IF waiting THEN fails - 1 ELSE IF fails < 2 THEN fails ELSE 2
        nEl == waited(an.hist.elFail, an.pc = "el_delay")
        nG == waited(an.hist.gFail, an.pc = "g_delay")
    IN /\ an.hist.delays = SubSeq(backoff, 1, nEl) \o SubSeq(backoff, 1, nG)
       /\ an.pc = "el_delay" => an.hist.elFail \in {1, 2}
       /\ an.pc = "g_delay" => an.hist.gFail \in {1, 2}
       /\ an.hist.elFail <= 3 /\ an.hist.gFail <= 3

\* C36 witness: three failed attempts on each adapter, with the waits 1000,
\* 2000, 1000, 2000, and the call has returned.
C36_Witness ==
    /\ an.pc = "returned" /\ an.hist.elFail = 3 /\ an.hist.gFail = 3
    /\ an.hist.delays = << 1000, 2000, 1000, 2000 >>

\* C37: in one adapter attempt the sentiment call follows a transcription
\* call of the same attempt that returned non-empty text; a failure of
\* either sub-call is one failed attempt of at most 3; and a result comes
\* from an attempt whose two sub-calls succeeded, with the text of that
\* attempt.
C37_SentimentAfterTranscription ==
    /\ an.hist.elStt <= 3 /\ an.hist.gStt <= 3
    /\ an.hist.elSent <= an.hist.elStt /\ an.hist.gSent <= an.hist.gStt
    /\ an.pc = "el_sent" =>
          /\ an.text.id # ""
          /\ an.hist.elStt = an.hist.elFail + 1 /\ an.attempt = an.hist.elFail
    /\ an.pc = "g_sent" =>
          /\ an.text.id # ""
          /\ an.hist.gStt = an.hist.gFail + 1 /\ an.attempt = an.hist.gFail
    /\ an.pc \in {"el_stt", "el_delay"} => an.hist.elStt = an.hist.elFail
    /\ an.pc \in {"g_stt", "g_delay"} => an.hist.gStt = an.hist.gFail
    /\ (an.pc = "returned" /\ an.result.apiUsed = "elevenlabs") =>
          /\ an.hist.elStt = an.hist.elFail + 1
          /\ an.result.transcript = an.text /\ an.text.id # ""
    /\ (an.pc = "returned" /\ an.result.apiUsed = "google") =>
          /\ an.hist.gStt = an.hist.gFail + 1
          /\ an.result.transcript = an.text /\ an.text.id # ""
    /\ (an.pc = "returned" /\ an.result.apiUsed = "fallback") =>
          an.result.transcript = NoText

\* C37 witness: the first ElevenLabs attempt transcribed and failed at the
\* sentiment call, the second attempt is at its sentiment call.
C37_Witness ==
    /\ an.pc = "el_sent" /\ an.attempt = 1
    /\ an.hist.elStt = 2 /\ an.hist.elSent = 1 /\ an.hist.elFail = 1

\* C40: the download is attempted only with a media URL that a provider
\* returned, every attempt fetches that same URL, and no provider is called
\* once the step has started.
C40_RetriesReuseProviderUrl ==
    /\ [](/\ gen.pc \in {"download", "upload"} => gen.videoUrl \in ProviderUrls
          /\ gen.hist.downloads > 0 =>
                (gen.videoUrl \in ProviderUrls /\ gen.hist.fetched = {gen.videoUrl}))
    /\ [][gen.pc \in {"download", "upload"} =>
             /\ gen'.hist.didCalls = gen.hist.didCalls
             /\ gen'.hist.joggCalls = gen.hist.joggCalls
             /\ gen'.videoUrl = gen.videoUrl
             /\ gen'.pc \in {"download", "upload", "returned"}]_vars

\* C40 witness: the third attempt of the step is about to download D-ID's
\* URL again, after one provider call.
C40_Witness ==
    /\ gen.pc = "download" /\ gen.retry = 2 /\ gen.hist.downloads = 2
    /\ gen.hist.fetched = {DidUrl}
    /\ gen.hist.didCalls = 1 /\ gen.hist.joggCalls = 0

\* C35 (does not hold): when every call returns or fails, the Video record
\* of every started job eventually leaves processing and is completed or
\* failed.
C35_VideoLeavesProcessing ==
    \A r \in Requests :
       (job[r].pc = "generating") ~> (videos[r].status \in {"completed", "failed"})

\* C38: analysis_status of a dialogue only moves forward along pending,
\* processing, completed or failed: no step brings it back to pending from
\* processing, completed or failed, and no step takes it away from completed
\* (neither to processing nor to failed).
C38_AnalysisStatusForward ==
    [][ (dialogue.exists /\ dialogue'.exists) =>
          /\ dialogue'.analysis_status = "pending" => dialogue.analysis_status = "pending"
          /\ dialogue.analysis_status = "completed" => dialogue'.analysis_status = "completed"
      ]_vars

\* The task ran to its end with every write applied, on a result of an
\* adapter: pending, processing, completed.
C38_Witness ==
    /\ dialogue.exists /\ dialogue.analysis_status = "completed"
    /\ task.pc = "done" /\ ~task.fault /\ ~task.allFailed
    /\ dialogue.analysis_metadata.api_used # "fallback"

\* C39: a provider result with confidence below the gate is returned with
\* the key_themes and risk_indicators that were derived from its transcript,
\* unchanged by the gate, so suggestTemplate on the returned profile answers
\* crisis-support-therapist (0.95) when the transcript held a risk keyword
\* and life-coach (0.75) otherwise.
C39_GateKeepsThemesAndRisk ==
    (/\ an.pc = "returned"
     /\ an.result.apiUsed \in {"elevenlabs", "google"}
     /\ an.result.confidence < ConfidenceGate) =>
       LET m == an.result.moodAnalysis
           s == suggestTemplate(Some(m))
       IN /\ an.hist.mood # None
          /\ m.key_themes = an.hist.mood[1].key_themes
          /\ m.key_themes = extractKeyThemes(an.text)
          /\ m.risk_indicators = an.hist.mood[1].risk_indicators
          /\ m.risk_indicators = detectRiskIndicators(an.text)
          /\ IF detectRiskIndicators(an.text) # << >>
             THEN s.templateId = "crisis-support-therapist" /\ s.confidence = 95
             ELSE s.templateId = "life-coach" /\ s.confidence = 75

\* A transcript with a risk keyword and a theme, transcribed with confidence
\* below the gate: the returned profile is neutral and still carries both.
C39_Witness ==
    /\ an.pc = "returned" /\ an.result.apiUsed \in {"elevenlabs", "google"}
    /\ an.result.confidence < ConfidenceGate
    /\ an.result.metadata.neutralFallbackApplied
    /\ an.result.moodAnalysis.overall_mood = "neutral"
    /\ an.result.moodAnalysis.risk_indicators = << "hopeless" >>
    /\ an.result.moodAnalysis.key_themes = << "work" >>
    /\ suggestTemplate(Some(an.result.moodAnalysis)).templateId = "crisis-support-therapist"

====
